---- MODULE Spec2Model ----
(***************************************************************************)
(* Model of the clustering engine of time-matrix-clustering:               *)
(* runClusteringAlgorithm (validation, distance map, multi-k search,       *)
(* result assembly) and runKMedoidsSimulation (one k-medoids trial).       *)
(* Math.random is modelled as a nondeterministic choice.                   *)
(* The form that calls the engine (ClusterForm inside HomePage) is modelled *)
(* with its file readers and its processing status.                        *)
(***************************************************************************)
EXTENDS Integers, Sequences, FiniteSets, TLC

VARIABLES
    doc,                \* the distance-matrix document handed to runClusteringAlgorithm
    params,             \* ClusteringParams
    pc,                 \* position inside runClusteringAlgorithm
    uniqueNodes,        \* Array.from(allNodesSet), in insertion order
    distanceMap,        \* the nested Map built by buildDistanceMap
    k,                  \* loop variable of the search loop
    allMetrics,         \* ClusterMetric rows pushed so far
    bestK,
    minTotalIntraClusterDistance,
    bestClusters,
    currentMedoids,     \* runKMedoidsSimulation: current medoid array
    previousMedoidsJSON,\* runKMedoidsSimulation: JSON of the previous sorted medoids
    iter,               \* runKMedoidsSimulation: iteration counter
    trials,             \* every value returned by runKMedoidsSimulation so far (resultForK, with its k)
    result,             \* the ClusteringResult returned, once pc = "done"
    processingStatus,   \* HomePage: 'idle' | 'reading_file' | 'clustering'
    distanceMatrixFile, \* ClusterForm: a file is held by the distanceMatrixFile field
    locationsFile,      \* ClusterForm: a file is held by the locationsFile field
    locationsFileName,  \* ClusterForm: "null", "name" (the file's name) or "error" ("Error: ...")
    locationsReaders,   \* FileReaders of handleLocationsFileChange that have not called back
    matrixReaders,      \* FileReaders of onSubmit that have not called back
    runsAwaited         \* runClusteringAlgorithm calls awaited by a reader.onload of onSubmit

formVars == <<processingStatus, distanceMatrixFile, locationsFile, locationsFileName,
              locationsReaders, matrixReaders, runsAwaited>>

vars == <<doc, params, pc, uniqueNodes, distanceMap, k, allMetrics, bestK,
          minTotalIntraClusterDistance, bestClusters, currentMedoids,
          previousMedoidsJSON, iter, trials, result, formVars>>

\* the form as it is mounted: nothing selected, nothing being read, status 'idle'
FormMounted ==
    /\ processingStatus = "idle"
    /\ distanceMatrixFile = FALSE
    /\ locationsFile = FALSE
    /\ locationsFileName = "null"
    /\ locationsReaders = 0
    /\ matrixReaders = 0
    /\ runsAwaited = 0

\* the form while the reader.onload of onSubmit awaits runClusteringAlgorithm
FormAwaitingRun ==
    /\ processingStatus = "clustering"
    /\ distanceMatrixFile = TRUE
    /\ locationsFile = FALSE
    /\ locationsFileName = "null"
    /\ locationsReaders = 0
    /\ matrixReaders = 0
    /\ runsAwaited = 1

\* ---------------------------------------------------------------- bounds
MaxNode == 2        \* node identifiers are 0..MaxNode
MaxDist == 2        \* supplied distances are 0..MaxDist
MaxParam == 2       \* each of minClusters, maxClusters, minClusterSize is 0..MaxParam

\* the numbers of entries of the documents drawn
EntryCounts == {0, 1, 2}

NodeIds == 0..MaxNode
Dists == 0..MaxDist
\* an entry is drawn with from <= to: the oracle is symmetric either way, and the
\* order of the entries still varies the order in which the nodes are first seen
Entries ==
    {e \in [from : NodeIds, to : NodeIds, distance : Dists] : e.from <= e.to}

\* A document is the text of distanceMatrixString as JSON.parse sees it:
\*   kind "unparseable": JSON.parse throws;
\*   kind "not_array":   a JSON value that is not an array;
\*   kind "array":       an array of objects, `entries` holding the from, to and distance
\*                       of each and `nonNumeric` the <<index, field>> pairs whose JSON
\*                       value is missing or is not a number.
Document(kind, entries, nonNumeric) ==
    [kind |-> kind, entries |-> entries, nonNumeric |-> nonNumeric]

Documents ==
    {Document("unparseable", <<>>, {}), Document("not_array", <<>>, {})}
    \cup {Document("array", es, {}) : es \in UNION {[1..n -> Entries] : n \in EntryCounts}}

ParamSets == [minClusters : 0..MaxParam, maxClusters : 0..MaxParam, minClusterSize : 0..MaxParam]

\* ---------------------------------------------------------------- numbers
\* Infinity: larger than every finite sum the model can form, absorbing under +.
Infinity == 1000000

Plus(a, b) == IF a = Infinity \/ b = Infinity THEN Infinity ELSE a + b

Range(s) == {s[i] : i \in DOMAIN s}

\* Array.prototype.sort((a,b) => a-b)
RECURSIVE InsertSorted(_, _)
InsertSorted(x, s) ==
    IF s = <<>> THEN <<x>>
    ELSE IF x < Head(s) THEN <<x>> \o s
    ELSE <<Head(s)>> \o InsertSorted(x, Tail(s))

\* mutant of sortAscending: the array is left in the order it has
sortAscending_Unsorted(s) == s

RECURSIVE sortAscending(_)
sortAscending(s) == IF s = <<>> THEN <<>> ELSE InsertSorted(Head(s), sortAscending(Tail(s)))

\* mutant of uniqueArray: duplicates are kept
uniqueArray_KeepDuplicates(s) == s

\* [...new Set(array)]: first occurrences, in order
RECURSIVE uniqueArray(_)
uniqueArray(s) ==
    IF s = <<>> THEN <<>>
    ELSE LET front == uniqueArray(SubSeq(s, 1, Len(s) - 1))
             last == s[Len(s)]
         IN IF last \in Range(front) THEN front ELSE Append(front, last)

\* the arrays shuffleArray(array).slice(0, n) can return: every ordering of every
\* n-subset (all of them when n exceeds the length)
Arrangements(array, n) ==
    LET m == IF n < Len(array) THEN n ELSE Len(array)
    IN {s \in [1..m -> Range(array)] : \A i, j \in 1..m : s[i] = s[j] => i = j}

\* ---------------------------------------------------------------- distance oracle
RECURSIVE allNodesOf(_, _)
allNodesOf(matrix, acc) ==
    IF matrix = <<>> THEN acc
    ELSE LET e == Head(matrix)
             a1 == IF e.from \in Range(acc) THEN acc ELSE Append(acc, e.from)
             a2 == IF e.to \in Range(a1) THEN a1 ELSE Append(a1, e.to)
         IN allNodesOf(Tail(matrix), a2)

\* mutant of setEntries: an entry is stored under its own direction only
RECURSIVE setEntries_OneWay(_, _)
setEntries_OneWay(map, matrix) ==
    IF matrix = <<>> THEN map
    ELSE LET e == Head(matrix)
         IN setEntries_OneWay([map EXCEPT ![e.from][e.to] = e.distance], Tail(matrix))

RECURSIVE setEntries(_, _)
setEntries(map, matrix) ==
    IF matrix = <<>> THEN map
    ELSE LET e == Head(matrix)
             m1 == [map EXCEPT ![e.from][e.to] = e.distance]
             m2 == [m1 EXCEPT ![e.to][e.from] = e.distance]
         IN setEntries(m2, Tail(matrix))

\* mutant of buildDistanceMap: every cell starts at 0
buildDistanceMap_ZeroDefault(distanceMatrix, allNodes) ==
    setEntries([n1 \in allNodes |-> [n2 \in allNodes |-> 0]], distanceMatrix)

buildDistanceMap(distanceMatrix, allNodes) ==
    setEntries([n1 \in allNodes |-> [n2 \in allNodes |-> IF n1 = n2 THEN 0 ELSE Infinity]],
               distanceMatrix)

getDistance(node1, node2, map) ==
    IF node1 \in DOMAIN map /\ node2 \in DOMAIN map[node1] THEN map[node1][node2] ELSE Infinity

\* ---------------------------------------------------------------- validation
Undefined == [kind |-> "undefined", args |-> <<>>]

Warning(kind, args) == [kind |-> kind, args |-> args]

\* mutant of validateBaseParams: the minClusters > maxClusters check is missing
validateBaseParams_NoOrderCheck(p) ==
    IF p.minClusters <= 0 THEN Warning("MinClustersNotPositive", <<>>)
    ELSE IF p.maxClusters <= 0 THEN Warning("MaxClustersNotPositive", <<>>)
    ELSE IF p.minClusterSize <= 0 THEN Warning("MinClusterSizeNotPositive", <<>>)
    ELSE Undefined

validateBaseParams(p) ==
    IF p.minClusters <= 0 THEN Warning("MinClustersNotPositive", <<>>)
    ELSE IF p.maxClusters <= 0 THEN Warning("MaxClustersNotPositive", <<>>)
    ELSE IF p.minClusters > p.maxClusters THEN Warning("MinGreaterThanMax", <<>>)
    ELSE IF p.minClusterSize <= 0 THEN Warning("MinClusterSizeNotPositive", <<>>)
    ELSE Undefined

\* mutant of validateNodeCounts: the cluster-size check comes before the cluster-count check
validateNodeCounts_SizeFirst(uniqueNodesCount, p) ==
    IF uniqueNodesCount = 0 THEN Warning("NoUniquePoints", <<>>)
    ELSE IF uniqueNodesCount < p.minClusterSize /\ p.minClusterSize > 0
        THEN Warning("CannotFormSize", <<p.minClusterSize, uniqueNodesCount>>)
    ELSE IF uniqueNodesCount < p.minClusters /\ p.minClusters > 0
        THEN Warning("CannotFormClusters", <<p.minClusters, uniqueNodesCount>>)
    ELSE IF uniqueNodesCount < p.minClusters * p.minClusterSize
            /\ p.minClusters > 0 /\ p.minClusterSize > 0
        THEN Warning("LikelyImpossible", <<p.minClusters, p.minClusterSize, uniqueNodesCount>>)
    ELSE Undefined

validateNodeCounts(uniqueNodesCount, p) ==
    IF uniqueNodesCount = 0 THEN Warning("NoUniquePoints", <<>>)
    ELSE IF uniqueNodesCount < p.minClusters /\ p.minClusters > 0
        THEN Warning("CannotFormClusters", <<p.minClusters, uniqueNodesCount>>)
    ELSE IF uniqueNodesCount < p.minClusterSize /\ p.minClusterSize > 0
        THEN Warning("CannotFormSize", <<p.minClusterSize, uniqueNodesCount>>)
    ELSE IF uniqueNodesCount < p.minClusters * p.minClusterSize
            /\ p.minClusters > 0 /\ p.minClusterSize > 0
        THEN Warning("LikelyImpossible", <<p.minClusters, p.minClusterSize, uniqueNodesCount>>)
    ELSE Undefined

\* ---------------------------------------------------------------- intake
\* DistanceEntrySchema: from, to and distance are numbers (z.number(), no range)
DistanceEntrySchema(d, i) ==
    \A field \in {"from", "to", "distance"} : <<i, field>> \notin d.nonNumeric

\* mutant of DistanceMatrixSchema: any array passes, whatever its entries hold
DistanceMatrixSchema_ArrayOnly(d) == d.kind = "array"

\* DistanceMatrixSchema.safeParse(rawParsedData).success
DistanceMatrixSchema(d) ==
    d.kind = "array" /\ \A i \in DOMAIN d.entries : DistanceEntrySchema(d, i)

\* ---------------------------------------------------------------- results
\* A ClusteringResult: `has` is the set of populated fields.
NoResult ==
    [has |-> {}, error |-> "", warning |-> Undefined, chosenClusters |-> <<>>,
     chosenK |-> -1, allMetrics |-> <<>>]

ErrorResult(msg) == [NoResult EXCEPT !.has = {"error"}, !.error = msg]

WarningResult(w) == [NoResult EXCEPT !.has = {"warning"}, !.warning = w]

\* mutant of earlyReturn: the parameters are validated before the empty check
earlyReturn_ParamsFirst(d, p) ==
    IF d.kind = "unparseable" THEN ErrorResult("FailedToParse")
    ELSE IF ~DistanceMatrixSchema(d) THEN ErrorResult("InvalidFormat")
    ELSE IF validateBaseParams(p) # Undefined THEN WarningResult(validateBaseParams(p))
    ELSE IF Len(d.entries) = 0 THEN WarningResult(Warning("NoData", <<>>))
    ELSE IF validateNodeCounts(Len(allNodesOf(d.entries, <<>>)), p) # Undefined
        THEN WarningResult(validateNodeCounts(Len(allNodesOf(d.entries, <<>>)), p))
    ELSE NoResult

\* runClusteringAlgorithm before the search loop: the result of the first return
\* statement that applies, NoResult when none does
earlyReturn(d, p) ==
    IF d.kind = "unparseable" THEN ErrorResult("FailedToParse")
    ELSE IF ~DistanceMatrixSchema(d) THEN ErrorResult("InvalidFormat")
    ELSE IF Len(d.entries) = 0 THEN WarningResult(Warning("NoData", <<>>))
    ELSE IF validateBaseParams(p) # Undefined THEN WarningResult(validateBaseParams(p))
    ELSE IF validateNodeCounts(Len(allNodesOf(d.entries, <<>>)), p) # Undefined
        THEN WarningResult(validateNodeCounts(Len(allNodesOf(d.entries, <<>>)), p))
    ELSE NoResult

\* ---------------------------------------------------------------- one k-medoids trial
maxIterations == 10

\* mutant of closestMedoidFrom: a medoid at an equal distance replaces the one found
RECURSIVE closestMedoidFrom_LastWins(_, _, _, _, _)
closestMedoidFrom_LastWins(node, medoids, map, closestMedoid, minDistance) ==
    IF medoids = <<>> THEN closestMedoid
    ELSE LET dist == getDistance(node, Head(medoids), map)
         IN IF dist <= minDistance /\ dist < Infinity
            THEN closestMedoidFrom_LastWins(node, Tail(medoids), map, Head(medoids), dist)
            ELSE closestMedoidFrom_LastWins(node, Tail(medoids), map, closestMedoid, minDistance)

\* mutant of closestMedoidFrom: the first medoid at a finite distance is taken
RECURSIVE closestMedoidFrom_FirstFinite(_, _, _, _, _)
closestMedoidFrom_FirstFinite(node, medoids, map, closestMedoid, minDistance) ==
    IF medoids = <<>> THEN closestMedoid
    ELSE LET dist == getDistance(node, Head(medoids), map)
         IN IF dist < Infinity /\ closestMedoid = -1
            THEN closestMedoidFrom_FirstFinite(node, Tail(medoids), map, Head(medoids), dist)
            ELSE closestMedoidFrom_FirstFinite(node, Tail(medoids), map, closestMedoid, minDistance)

\* the inner loop of the assignment step: the first medoid, in array order, at the
\* strictly smallest distance below Infinity; -1 when there is none
RECURSIVE closestMedoidFrom(_, _, _, _, _)
closestMedoidFrom(node, medoids, map, closestMedoid, minDistance) ==
    IF medoids = <<>> THEN closestMedoid
    ELSE LET dist == getDistance(node, Head(medoids), map)
         IN IF dist < minDistance
            THEN closestMedoidFrom(node, Tail(medoids), map, Head(medoids), dist)
            ELSE closestMedoidFrom(node, Tail(medoids), map, closestMedoid, minDistance)

\* mutant of closestMedoidOf: the search starts from the first medoid instead of -1
closestMedoidOf_AlwaysAssigns(node, medoids, map) ==
    closestMedoidFrom(node, medoids, map, medoids[1], Infinity)

closestMedoidOf(node, medoids, map) == closestMedoidFrom(node, medoids, map, -1, Infinity)

\* the assignment step: medoidId -> list of memberIds, members pushed in uniqueNodes order
assignNodes(medoids, nodes, map) ==
    [m \in Range(medoids) |-> SelectSeq(nodes, LAMBDA n : closestMedoidOf(n, medoids, map) = m)]

RECURSIVE sumDistances(_, _, _)
sumDistances(potentialMedoid, members, map) ==
    IF members = <<>> THEN 0
    ELSE Plus(getDistance(potentialMedoid, Head(members), map),
              sumDistances(potentialMedoid, Tail(members), map))

RECURSIVE bestMedoidFrom(_, _, _, _, _)
bestMedoidFrom(candidates, members, map, best, minSumDist) ==
    IF candidates = <<>> THEN best
    ELSE LET currentSumDist == sumDistances(Head(candidates), members, map)
         IN IF currentSumDist < minSumDist
            THEN bestMedoidFrom(Tail(candidates), members, map, Head(candidates), currentSumDist)
            ELSE bestMedoidFrom(Tail(candidates), members, map, best, minSumDist)

\* mutant of bestNewMedoidForCluster: the first member stays the medoid
bestNewMedoidForCluster_FirstMember(members, map) == members[1]

\* the update step for one non-empty cluster
bestNewMedoidForCluster(members, map) ==
    bestMedoidFrom(members, members, map, members[1], Infinity)

\* the indices of the medoids that lost all members in the assignment step
lostMedoids(medoids, groups) == {i \in DOMAIN medoids : groups[medoids[i]] = <<>>}

\* the update step: `draws` holds the random node drawn for each lost medoid
updateMedoids(medoids, groups, map, draws) ==
    [i \in DOMAIN medoids |->
        IF groups[medoids[i]] = <<>> THEN draws[i]
        ELSE bestNewMedoidForCluster(groups[medoids[i]], map)]

\* mutant of availableNodesForRefill: the nodes already chosen are not filtered out
availableNodesForRefill_NoFilter(nodes, medoids) == nodes

availableNodesForRefill(nodes, medoids) == SelectSeq(nodes, LAMBDA n : n \notin Range(medoids))

\* the refill of the medoid array: the arrays the loop over shuffledAvailable can push
refillChoices(nodes, medoids, targetK) ==
    IF Len(medoids) < targetK
    THEN Arrangements(availableNodesForRefill(nodes, medoids), targetK - Len(medoids))
    ELSE {<<>>}

JSONstringify(array) == <<array>>

\* mutant of meetsMinClusterSize: the filter is off by one
meetsMinClusterSize_OffByOne(members, minClusterSize) == Len(members) >= minClusterSize - 1

\* the members.length >= minClusterSize filter of the cluster construction
meetsMinClusterSize(members, minClusterSize) == Len(members) >= minClusterSize

RECURSIVE medoidToMembers(_, _, _)
medoidToMembers(medoid, members, map) ==
    IF members = <<>> THEN 0
    ELSE Plus(IF Head(members) # medoid THEN getDistance(medoid, Head(members), map) ELSE 0,
              medoidToMembers(medoid, Tail(members), map))

\* mutant of formClusters: the distances of a discarded cluster are added as well
RECURSIVE formClusters_CountsDiscarded(_, _, _, _, _, _)
formClusters_CountsDiscarded(medoids, groups, map, minClusterSize, formedClusters, total) ==
    IF medoids = <<>> THEN [clusters |-> formedClusters, totalIntraClusterDistance |-> total]
    ELSE LET medoid == Head(medoids)
             members == groups[medoid]
         IN formClusters_CountsDiscarded(Tail(medoids), groups, map, minClusterSize,
                IF meetsMinClusterSize(members, minClusterSize)
                THEN Append(formedClusters,
                            [id |-> Len(formedClusters) + 1, members |-> sortAscending(members)])
                ELSE formedClusters,
                Plus(total, medoidToMembers(medoid, members, map)))

RECURSIVE formClusters(_, _, _, _, _, _)
formClusters(medoids, groups, map, minClusterSize, formedClusters, total) ==
    IF medoids = <<>> THEN [clusters |-> formedClusters, totalIntraClusterDistance |-> total]
    ELSE LET medoid == Head(medoids)
             members == groups[medoid]
         IN IF meetsMinClusterSize(members, minClusterSize)
            THEN formClusters(Tail(medoids), groups, map, minClusterSize,
                    Append(formedClusters,
                           [id |-> Len(formedClusters) + 1, members |-> sortAscending(members)]),
                    Plus(total, medoidToMembers(medoid, members, map)))
            ELSE formClusters(Tail(medoids), groups, map, minClusterSize, formedClusters, total)

Infeasible == [clusters |-> <<>>, totalIntraClusterDistance |-> Infinity]

\* mutant of simulationResult: no sentinel when no cluster survived
simulationResult_NoSentinel(formed, targetK) == formed

\* the value runKMedoidsSimulation returns after the cluster construction
simulationResult(formed, targetK) ==
    IF Len(formed.clusters) = 0 /\ targetK > 0 THEN Infeasible ELSE formed

\* ---------------------------------------------------------------- the search
\* mutant of skipsTrial: the k * minClusterSize check is missing
skipsTrial_CountOnly(kk, uniqueNodesCount, minClusterSize) == kk > uniqueNodesCount

skipsTrial(kk, uniqueNodesCount, minClusterSize) ==
    \/ kk > uniqueNodesCount
    \/ kk * minClusterSize > uniqueNodesCount /\ kk > 0

SkippedMetric(kk) ==
    [k |-> kk, totalIntraClusterDistance |-> Infinity, numberOfValidClusters |-> 0]

MetricOf(kk, resultForK) ==
    [k |-> kk, totalIntraClusterDistance |-> resultForK.totalIntraClusterDistance,
     numberOfValidClusters |-> Len(resultForK.clusters)]

\* mutant of isNewBest: a tie replaces the best so far
isNewBest_OrEqual(resultForK, minTotal) ==
    Len(resultForK.clusters) > 0 /\ resultForK.totalIntraClusterDistance <= minTotal

isNewBest(resultForK, minTotal) ==
    Len(resultForK.clusters) > 0 /\ resultForK.totalIntraClusterDistance < minTotal

\* mutant of finalResult: the metric rows are dropped when no k yielded a cluster
finalResult_DropsMetrics(best, clusters, metrics, uniqueNodesCount, p) ==
    IF best = -1
    THEN WarningResult(Warning("NoClustersFormed",
                               <<p.minClusterSize, p.minClusters, p.maxClusters>>))
    ELSE IF Len(clusters) < p.minClusters /\ p.minClusters > 0
    THEN [NoResult EXCEPT !.has = {"chosenClusters", "chosenK", "allMetrics", "warning"},
            !.chosenClusters = clusters, !.chosenK = best, !.allMetrics = metrics,
            !.warning = Warning("FewerThanDesired", <<Len(clusters), best, p.minClusters>>)]
    ELSE [NoResult EXCEPT !.has = {"chosenClusters", "chosenK", "allMetrics"},
            !.chosenClusters = clusters, !.chosenK = best, !.allMetrics = metrics]

\* mutant of finalResult: the warning is also raised at exactly minClusters clusters
finalResult_WarnsAtMin(best, clusters, metrics, uniqueNodesCount, p) ==
    IF best = -1
    THEN [NoResult EXCEPT !.has = {"allMetrics", "warning"}, !.allMetrics = metrics,
            !.warning = Warning("NoClustersFormed",
                                <<p.minClusterSize, p.minClusters, p.maxClusters>>)]
    ELSE IF Len(clusters) <= p.minClusters /\ p.minClusters > 0
    THEN [NoResult EXCEPT !.has = {"chosenClusters", "chosenK", "allMetrics", "warning"},
            !.chosenClusters = clusters, !.chosenK = best, !.allMetrics = metrics,
            !.warning = Warning("FewerThanDesired", <<Len(clusters), best, p.minClusters>>)]
    ELSE [NoResult EXCEPT !.has = {"chosenClusters", "chosenK", "allMetrics"},
            !.chosenClusters = clusters, !.chosenK = best, !.allMetrics = metrics]

\* mutant of finalResult: no warning when no k yielded a cluster
finalResult_SilentWhenNone(best, clusters, metrics, uniqueNodesCount, p) ==
    IF best = -1
    THEN [NoResult EXCEPT !.has = {"allMetrics"}, !.allMetrics = metrics]
    ELSE IF Len(clusters) < p.minClusters /\ p.minClusters > 0
    THEN [NoResult EXCEPT !.has = {"chosenClusters", "chosenK", "allMetrics", "warning"},
            !.chosenClusters = clusters, !.chosenK = best, !.allMetrics = metrics,
            !.warning = Warning("FewerThanDesired", <<Len(clusters), best, p.minClusters>>)]
    ELSE [NoResult EXCEPT !.has = {"chosenClusters", "chosenK", "allMetrics"},
            !.chosenClusters = clusters, !.chosenK = best, !.allMetrics = metrics]

\* the tail of runClusteringAlgorithm, after the search loop
finalResult(best, clusters, metrics, uniqueNodesCount, p) ==
    IF best = -1 /\ uniqueNodesCount > 0
    THEN [NoResult EXCEPT !.has = {"allMetrics", "warning"}, !.allMetrics = metrics,
            !.warning = Warning("NoClustersFormed",
                                <<p.minClusterSize, p.minClusters, p.maxClusters>>)]
    ELSE IF best # -1 /\ Len(clusters) < p.minClusters /\ p.minClusters > 0
    THEN [NoResult EXCEPT !.has = {"chosenClusters", "chosenK", "allMetrics", "warning"},
            !.chosenClusters = clusters, !.chosenK = best, !.allMetrics = metrics,
            !.warning = Warning("FewerThanDesired", <<Len(clusters), best, p.minClusters>>)]
    ELSE IF best = -1 /\ uniqueNodesCount = 0
    THEN WarningResult(Warning("NoUniquePointsToCluster", <<>>))
    ELSE [NoResult EXCEPT !.has = {"chosenClusters", "chosenK", "allMetrics"},
            !.chosenClusters = clusters, !.chosenK = best, !.allMetrics = metrics]

\* ---------------------------------------------------------------- state machine
\* the locals of runClusteringAlgorithm before its first statement
Fresh ==
    /\ pc = "start"
    /\ uniqueNodes = <<>>
    /\ distanceMap = <<>>
    /\ k = 0
    /\ allMetrics = <<>>
    /\ bestK = -1
    /\ minTotalIntraClusterDistance = Infinity
    /\ bestClusters = <<>>
    /\ currentMedoids = <<>>
    /\ previousMedoidsJSON = <<>>
    /\ iter = 0
    /\ trials = <<>>
    /\ result = NoResult
    /\ FormAwaitingRun

Init ==
    /\ doc \in Documents
    /\ params \in ParamSets
    /\ Fresh

\* runClusteringAlgorithm up to the search loop: parse, the empty check, both
\* validations, the node set and the distance map
Validate ==
    /\ pc = "start"
    /\ UNCHANGED formVars
    /\ LET nodes == allNodesOf(doc.entries, <<>>)
           early == earlyReturn(doc, params)
       IN IF early # NoResult
          THEN /\ pc' = "done"
               /\ result' = early
               /\ UNCHANGED <<uniqueNodes, distanceMap, k>>
          ELSE /\ pc' = "loop"
               /\ uniqueNodes' = nodes
               /\ distanceMap' = buildDistanceMap(doc.entries, Range(nodes))
               /\ k' = params.minClusters
               /\ UNCHANGED result
    /\ UNCHANGED <<doc, params, allMetrics, bestK, minTotalIntraClusterDistance, bestClusters,
                   currentMedoids, previousMedoidsJSON, iter, trials>>

\* a k the loop does not try: the sentinel row is pushed and the loop continues
SkipK ==
    /\ pc = "loop"
    /\ UNCHANGED formVars
    /\ k <= params.maxClusters
    /\ skipsTrial(k, Len(uniqueNodes), params.minClusterSize)
    /\ allMetrics' = Append(allMetrics, SkippedMetric(k))
    /\ k' = k + 1
    /\ UNCHANGED <<doc, params, pc, uniqueNodes, distanceMap, bestK,
                   minTotalIntraClusterDistance, bestClusters, currentMedoids,
                   previousMedoidsJSON, iter, trials, result>>

\* runKMedoidsSimulation returns resultForK: the loop pushes its row, keeps it when it
\* is the best so far, and moves to the next k
ReturnFromTrial(resultForK) ==
    /\ trials' = Append(trials, [k |-> k, clusters |-> resultForK.clusters,
                                 totalIntraClusterDistance |-> resultForK.totalIntraClusterDistance])
    /\ allMetrics' = Append(allMetrics, MetricOf(k, resultForK))
    /\ IF isNewBest(resultForK, minTotalIntraClusterDistance)
       THEN /\ minTotalIntraClusterDistance' = resultForK.totalIntraClusterDistance
            /\ bestK' = k
            /\ bestClusters' = resultForK.clusters
       ELSE UNCHANGED <<minTotalIntraClusterDistance, bestK, bestClusters>>
    /\ k' = k + 1
    /\ pc' = "loop"
    /\ currentMedoids' = <<>>
    /\ previousMedoidsJSON' = <<>>
    /\ iter' = 0

\* mutant of StartTrial: the node list itself is shuffled, and the initial medoids
\* are its first k nodes
StartTrial_ShufflesInPlace ==
    /\ pc = "loop"
    /\ UNCHANGED formVars
    /\ k <= params.maxClusters
    /\ ~skipsTrial(k, Len(uniqueNodes), params.minClusterSize)
    /\ IF k <= 0 \/ k > Len(uniqueNodes)
       THEN ReturnFromTrial(Infeasible) /\ UNCHANGED uniqueNodes
       ELSE \E shuffled \in Arrangements(uniqueNodes, Len(uniqueNodes)) :
                /\ uniqueNodes' = shuffled
                /\ currentMedoids' = SubSeq(shuffled, 1, k)
                /\ previousMedoidsJSON' = <<>>
                /\ iter' = 0
                /\ pc' = "iterate"
                /\ UNCHANGED <<k, allMetrics, bestK, minTotalIntraClusterDistance,
                               bestClusters, trials>>
    /\ UNCHANGED <<doc, params, distanceMap, result>>

\* the call of runKMedoidsSimulation and its random choice of the initial medoids
StartTrial ==
    /\ pc = "loop"
    /\ UNCHANGED formVars
    /\ k <= params.maxClusters
    /\ ~skipsTrial(k, Len(uniqueNodes), params.minClusterSize)
    /\ IF k <= 0 \/ k > Len(uniqueNodes)
       THEN ReturnFromTrial(Infeasible)
       ELSE \E initial \in Arrangements(uniqueNodes, k) :
                IF Len(initial) < k
                THEN ReturnFromTrial(Infeasible)
                ELSE /\ currentMedoids' = initial
                     /\ previousMedoidsJSON' = <<>>
                     /\ iter' = 0
                     /\ pc' = "iterate"
                     /\ UNCHANGED <<k, allMetrics, bestK, minTotalIntraClusterDistance,
                                    bestClusters, trials>>
    /\ UNCHANGED <<doc, params, uniqueNodes, distanceMap, result>>

\* one pass of the iteration loop: assignment, update with lost-medoid recovery,
\* deduplication, refill, the abandon check and the convergence check
Iterate ==
    /\ pc = "iterate"
    /\ UNCHANGED formVars
    /\ iter < maxIterations
    /\ \E groups \in {assignNodes(currentMedoids, uniqueNodes, distanceMap)} :
       \E draws \in [lostMedoids(currentMedoids, groups) -> Range(uniqueNodes)] :
       \E deduped \in {uniqueArray(updateMedoids(currentMedoids, groups, distanceMap, draws))} :
       \E refill \in refillChoices(uniqueNodes, deduped, k) :
       \E medoids \in {deduped \o refill} :
       \E sortedMedoidsJSON \in {JSONstringify(sortAscending(medoids))} :
          IF Len(medoids) < k
          THEN ReturnFromTrial(Infeasible)
          ELSE /\ currentMedoids' = medoids
               /\ IF previousMedoidsJSON = sortedMedoidsJSON
                  THEN pc' = "final" /\ UNCHANGED <<previousMedoidsJSON, iter>>
                  ELSE /\ previousMedoidsJSON' = sortedMedoidsJSON
                       /\ iter' = iter + 1
                       /\ pc' = IF iter + 1 < maxIterations THEN "iterate" ELSE "final"
               /\ UNCHANGED <<k, allMetrics, bestK, minTotalIntraClusterDistance,
                              bestClusters, trials>>
    /\ UNCHANGED <<doc, params, uniqueNodes, distanceMap, result>>

\* the final assignment, the cluster construction and the return to the loop
FinishTrial ==
    /\ pc = "final"
    /\ UNCHANGED formVars
    /\ \E finalClusterMap \in {assignNodes(currentMedoids, uniqueNodes, distanceMap)} :
       \E formed \in {formClusters(currentMedoids, finalClusterMap, distanceMap,
                                   params.minClusterSize, <<>>, 0)} :
       \E resultForK \in {simulationResult(formed, k)} :
          ReturnFromTrial(resultForK)
    /\ UNCHANGED <<doc, params, uniqueNodes, distanceMap, result>>

\* the loop has ended: the result is assembled and returned
Finish ==
    /\ pc = "loop"
    /\ UNCHANGED formVars
    /\ k > params.maxClusters
    /\ result' = finalResult(bestK, bestClusters, allMetrics, Len(uniqueNodes), params)
    /\ pc' = "done"
    /\ UNCHANGED <<doc, params, uniqueNodes, distanceMap, k, allMetrics, bestK,
                   minTotalIntraClusterDistance, bestClusters, currentMedoids,
                   previousMedoidsJSON, iter, trials>>

Next == Validate \/ SkipK \/ StartTrial \/ Iterate \/ FinishTrial \/ Finish

Spec == Init /\ [][Next]_vars

\* ---------------------------------------------------------------- intake of raw documents
\* The same program started on documents as they arrive: entries may carry a
\* negative distance, and one field of one entry may be missing or not a number.
IntakeDists == {-1, 1}

IntakeEntries ==
    {e \in [from : NodeIds, to : NodeIds, distance : IntakeDists] : e.from <= e.to}

NonNumericChoices(es) ==
    {{}} \cup {{<<i, field>>} : i \in DOMAIN es, field \in {"from", "to", "distance"}}

IntakeDocuments ==
    {Document("unparseable", <<>>, {}), Document("not_array", <<>>, {})}
    \cup UNION {{Document("array", es, nn) : nn \in NonNumericChoices(es)} :
                  es \in UNION {[1..n -> IntakeEntries] : n \in EntryCounts}}

InitIntake ==
    /\ doc \in IntakeDocuments
    /\ params \in ParamSets
    /\ Fresh

SpecIntake == InitIntake /\ [][Next]_vars

\* ---------------------------------------------------------------- vocabulary of the claims
Done == pc = "done"

\* the endpoints of the input entries, read off the document itself
Endpoints == {doc.entries[i].from : i \in DOMAIN doc.entries}
             \cup {doc.entries[i].to : i \in DOMAIN doc.entries}

NodeCount == Cardinality(Endpoints)

Accepted == DistanceMatrixSchema(doc) /\ Len(doc.entries) > 0

InvalidParams ==
    \/ params.minClusters <= 0
    \/ params.maxClusters <= 0
    \/ params.minClusters > params.maxClusters
    \/ params.minClusterSize <= 0

FeasibilityWarns ==
    \/ NodeCount < params.minClusters
    \/ NodeCount < params.minClusterSize
    \/ NodeCount < params.minClusters * params.minClusterSize

\* the search loop was entered and runClusteringAlgorithm has returned
SearchDone == Done /\ Accepted /\ ~InvalidParams /\ ~FeasibilityWarns

MembersOf(cluster) == Range(cluster.members)

PairwiseDisjoint(clusters) ==
    \A i, j \in DOMAIN clusters : i # j => MembersOf(clusters[i]) \cap MembersOf(clusters[j]) = {}

WithinNodeSet(clusters) == \A i \in DOMAIN clusters : MembersOf(clusters[i]) \subseteq Endpoints

TrialsOf(kk) == {i \in DOMAIN trials : trials[i].k = kk}

KRange == params.minClusters..params.maxClusters

\* one row per k of the range, in ascending k order
OneRowPerK(metrics) ==
    /\ Len(metrics) = Cardinality(KRange)
    /\ \A i \in DOMAIN metrics : metrics[i].k = params.minClusters + i - 1

\* ---------------------------------------------------------------- claims
\* C1: when runClusteringAlgorithm has returned, every cluster of chosenClusters has
\* at least minClusterSize members.
C1_ChosenClustersMeetMinSize ==
    (Done /\ "chosenClusters" \in result.has) =>
        \A i \in DOMAIN result.chosenClusters :
            Len(result.chosenClusters[i].members) >= params.minClusterSize

\* C1 witness: a run returned clusters although the size filter left some node out.
C1_Witness ==
    /\ Done /\ "chosenClusters" \in result.has
    /\ Len(result.chosenClusters) > 0
    /\ params.minClusterSize >= 2
    /\ UNION {MembersOf(result.chosenClusters[i]) : i \in DOMAIN result.chosenClusters}
         # Endpoints

\* C2: the clusters of every partition trial and of the returned result are pairwise
\* disjoint, and every member is an endpoint of some input entry.
C2_DisjointWithinNodeSet ==
    /\ \A i \in DOMAIN trials :
          PairwiseDisjoint(trials[i].clusters) /\ WithinNodeSet(trials[i].clusters)
    /\ (Done /\ "chosenClusters" \in result.has) =>
          PairwiseDisjoint(result.chosenClusters) /\ WithinNodeSet(result.chosenClusters)

\* C2 witness: a returned result with at least two clusters.
C2_Witness == Done /\ "chosenClusters" \in result.has /\ Len(result.chosenClusters) >= 2

\* C3: after the search, chosenK is the k of the row that has a valid cluster and the
\* lowest total distance, which is finite; among equal totals it is the smallest k; and
\* chosenClusters are the clusters returned by the trial of that k. A k is chosen
\* whenever some row has a valid cluster.
C3_SelectionRule ==
    SearchDone =>
        LET rows == result.allMetrics
            valid == {i \in DOMAIN rows : rows[i].numberOfValidClusters >= 1}
        IN /\ "allMetrics" \in result.has
           /\ ("chosenK" \in result.has) <=> (valid # {})
           /\ "chosenK" \in result.has =>
                \E c \in valid :
                    /\ rows[c].k = result.chosenK
                    /\ rows[c].totalIntraClusterDistance < Infinity
                    /\ \A i \in valid :
                          /\ rows[c].totalIntraClusterDistance <= rows[i].totalIntraClusterDistance
                          /\ rows[c].totalIntraClusterDistance = rows[i].totalIntraClusterDistance
                                => rows[c].k <= rows[i].k
                    /\ "chosenClusters" \in result.has
                    /\ \E t \in TrialsOf(result.chosenK) :
                          result.chosenClusters = trials[t].clusters

\* C3 witness: two k of the range tie on the lowest total, and a k was chosen.
C3_Witness ==
    /\ SearchDone /\ "chosenK" \in result.has
    /\ \E i, j \in DOMAIN result.allMetrics :
          /\ i < j
          /\ result.allMetrics[i].numberOfValidClusters >= 1
          /\ result.allMetrics[j].numberOfValidClusters >= 1
          /\ result.allMetrics[i].totalIntraClusterDistance
                = result.allMetrics[j].totalIntraClusterDistance
          /\ result.allMetrics[i].k = result.chosenK

\* C4: after the search, allMetrics has one row per k of [minClusters, maxClusters] in
\* ascending order; a k with k > |nodes| or k * minClusterSize > |nodes| has the
\* sentinel row and no trial; every other k has exactly one trial and its row is that
\* trial's outcome.
C4_OneRowPerK ==
    SearchDone =>
        /\ "allMetrics" \in result.has
        /\ result.allMetrics = allMetrics
        /\ OneRowPerK(result.allMetrics)
        /\ \A i \in DOMAIN result.allMetrics :
              LET row == result.allMetrics[i]
              IN IF row.k > NodeCount \/ row.k * params.minClusterSize > NodeCount
                 THEN /\ row.totalIntraClusterDistance = Infinity
                      /\ row.numberOfValidClusters = 0
                      /\ TrialsOf(row.k) = {}
                 ELSE /\ Cardinality(TrialsOf(row.k)) = 1
                      /\ \A t \in TrialsOf(row.k) :
                            /\ row.totalIntraClusterDistance = trials[t].totalIntraClusterDistance
                            /\ row.numberOfValidClusters = Len(trials[t].clusters)

\* C4 witness: a search whose range holds a skipped k and a k whose trial found a cluster.
C4_Witness ==
    /\ SearchDone
    /\ \E i, j \in DOMAIN result.allMetrics :
          /\ result.allMetrics[i].k * params.minClusterSize > NodeCount
          /\ result.allMetrics[j].numberOfValidClusters >= 1

\* C5: for every partition result and every metric row, the total distance is finite
\* exactly when at least one cluster survived; with none, the cluster list is empty, the
\* count is 0 and the total is the infinite sentinel.
C5_FiniteIffSurvivor ==
    /\ \A i \in DOMAIN trials :
          /\ (trials[i].totalIntraClusterDistance < Infinity) <=> (Len(trials[i].clusters) >= 1)
          /\ trials[i].totalIntraClusterDistance <= Infinity
    /\ \A i \in DOMAIN allMetrics :
          /\ (allMetrics[i].totalIntraClusterDistance < Infinity)
                <=> (allMetrics[i].numberOfValidClusters >= 1)
          /\ allMetrics[i].totalIntraClusterDistance <= Infinity
          /\ allMetrics[i].numberOfValidClusters >= 0

\* the oracle is sparse: some pair of nodes has no supplied distance
SparseOracle ==
    \E a, b \in DOMAIN distanceMap : getDistance(a, b, distanceMap) = Infinity

\* C5 witness: over a sparse oracle, a trial of a feasible k ended with no surviving
\* cluster.
C5_Witness ==
    /\ SparseOracle
    /\ \E i \in DOMAIN trials :
          trials[i].clusters = <<>> /\ trials[i].totalIntraClusterDistance = Infinity

\* the warning validateBaseParams gives for the first parameter check that fails
BaseParamWarningKind ==
    IF params.minClusters <= 0 THEN "MinClustersNotPositive"
    ELSE IF params.maxClusters <= 0 THEN "MaxClustersNotPositive"
    ELSE IF params.minClusters > params.maxClusters THEN "MinGreaterThanMax"
    ELSE "MinClusterSizeNotPositive"

C7_FeasibilityWarningKeepsSearching ==
    (Done /\ Accepted /\ ~InvalidParams /\ FeasibilityWarns) =>
        /\ "warning" \in result.has
        /\ "allMetrics" \in result.has
        /\ OneRowPerK(result.allMetrics)

\* C8: for an accepted document and valid parameters, a unique node count below
\* minClusters gives a result whose warning says that minClusters clusters cannot be
\* formed from that many points, with no chosenClusters and no error.
C8_TooFewNodesForMinClusters ==
    (Done /\ Accepted /\ ~InvalidParams /\ NodeCount < params.minClusters) =>
        /\ "warning" \in result.has
        /\ result.warning = Warning("CannotFormClusters", <<params.minClusters, NodeCount>>)
        /\ "chosenClusters" \notin result.has
        /\ "error" \notin result.has

\* C8 witness: the node count is below minClusters and below minClusterSize as well.
C8_Witness ==
    /\ Done /\ Accepted /\ ~InvalidParams
    /\ NodeCount < params.minClusters
    /\ NodeCount < params.minClusterSize
    /\ "warning" \in result.has

\* C9: when the search has run and no k produced a valid cluster, the result has neither
\* chosenK nor chosenClusters, carries a warning and holds every metric row collected,
\* one per k of the range.
C9_NoValidKeepsMetrics ==
    (SearchDone /\ \A i \in DOMAIN trials : trials[i].clusters = <<>>) =>
        /\ "chosenK" \notin result.has
        /\ "chosenClusters" \notin result.has
        /\ "warning" \in result.has
        /\ result.warning.kind = "NoClustersFormed"
        /\ "allMetrics" \in result.has
        /\ result.allMetrics = allMetrics
        /\ OneRowPerK(result.allMetrics)

\* C9 witness: trials were run and none of them produced a cluster.
C9_Witness ==
    /\ SearchDone
    /\ trials # <<>>
    /\ \A i \in DOMAIN trials : trials[i].clusters = <<>>

\* C10: when a solution was chosen, the result holds chosenClusters, chosenK and
\* allMetrics, and it carries a warning exactly when the chosen solution has fewer
\* clusters than minClusters.
C10_FewerThanMinWarns ==
    (SearchDone /\ bestK # -1) =>
        /\ {"chosenClusters", "chosenK", "allMetrics"} \subseteq result.has
        /\ result.chosenClusters = bestClusters
        /\ result.chosenK = bestK
        /\ result.allMetrics = allMetrics
        /\ ("warning" \in result.has) <=> (Len(bestClusters) < params.minClusters)
        /\ "warning" \in result.has =>
              result.warning = Warning("FewerThanDesired",
                                       <<Len(bestClusters), bestK, params.minClusters>>)

\* C10 witness: the chosen solution has fewer clusters than minClusters.
C10_Witness ==
    /\ SearchDone /\ bestK # -1
    /\ Len(bestClusters) >= 1
    /\ Len(bestClusters) < params.minClusters

\* a chosen solution with exactly minClusters clusters, returned without a warning
C10_NoWarningCase ==
    /\ SearchDone /\ bestK # -1
    /\ Len(bestClusters) = params.minClusters
    /\ "warning" \notin result.has

\* ---------------------------------------------------------------- the oracle alone
\* The node list and the distance map built from accepted documents whose entries
\* run in either direction, repeat a pair, or join a node to itself.
OracleEntryCounts == {0, 1, 2, 3}

OracleEntries == [from : NodeIds, to : NodeIds, distance : Dists]

OracleDocuments ==
    {Document("array", es, {}) : es \in UNION {[1..n -> OracleEntries] : n \in OracleEntryCounts}}

OracleParams == [minClusters |-> 1, maxClusters |-> 1, minClusterSize |-> 1]

InitOracle ==
    /\ doc \in OracleDocuments
    /\ params = OracleParams
    /\ Fresh

\* runClusteringAlgorithm from the node set to the distance map
BuildOracle ==
    /\ pc = "start"
    /\ UNCHANGED formVars
    /\ earlyReturn(doc, params) = NoResult
    /\ \E nodes \in {allNodesOf(doc.entries, <<>>)} :
        /\ uniqueNodes' = nodes
        /\ distanceMap' = buildDistanceMap(doc.entries, Range(nodes))
    /\ pc' = "oracle"
    /\ UNCHANGED <<doc, params, k, allMetrics, bestK, minTotalIntraClusterDistance,
                   bestClusters, currentMedoids, previousMedoidsJSON, iter, trials, result>>

NextOracle == BuildOracle

SpecOracle == InitOracle /\ [][NextOracle]_vars

OracleBuilt == pc = "oracle"

Nodes == Range(uniqueNodes)

\* the entries that join a and b, in either direction
Joining(a, b) ==
    {i \in DOMAIN doc.entries : {doc.entries[i].from, doc.entries[i].to} = {a, b}}

\* ---------------------------------------------------------------- two separated pairs
\* The whole program on the complete graph over nodes 0..3 in which 0-1 and 2-3 are
\* close and every distance between {0, 1} and {2, 3} is large, asked for exactly
\* two clusters of at least two nodes.
SmallDists == {1, 2}

LargeDists == {5, 6}

Entry(a, b, d) == [from |-> a, to |-> b, distance |-> d]

TwoPairsDocuments ==
    UNION {{Document("array",
                     <<Entry(0, 1, s[1]), Entry(0, 2, c[1]), Entry(0, 3, c[2]),
                       Entry(1, 2, c[3]), Entry(1, 3, c[4]), Entry(2, 3, s[2])>>, {}),
            Document("array",
                     <<Entry(3, 0, c[2]), Entry(2, 1, c[3]), Entry(1, 0, s[1]),
                       Entry(3, 2, s[2]), Entry(2, 0, c[1]), Entry(3, 1, c[4])>>, {})} :
           s \in [1..2 -> SmallDists], c \in [1..4 -> LargeDists]}

TwoPairsParams == [minClusters |-> 2, maxClusters |-> 2, minClusterSize |-> 2]

InitTwoPairs ==
    /\ doc \in TwoPairsDocuments
    /\ params = TwoPairsParams
    /\ Fresh

\* no k is skipped here: 2 * 2 nodes are asked for and 4 are there
NextTwoPairs == Validate \/ StartTrial \/ Iterate \/ FinishTrial \/ Finish

SpecTwoPairs == InitTwoPairs /\ [][NextTwoPairs]_vars

\* ---------------------------------------------------------------- three-node tables
\* The whole program on the distance tables over nodes 0, 1, 2: each of the three
\* pairs of distinct nodes has no entry or one at distance 0, 1 or 2, each node has
\* no entry to itself or one at distance 2, and the entries come in the order of
\* TablePairs.
NoEntry == -1

TablePairs == <<<<0, 0>>, <<0, 1>>, <<0, 2>>, <<1, 1>>, <<1, 2>>, <<2, 2>>>>

TableCells ==
    {c \in [DOMAIN TablePairs -> {NoEntry, 0, 1, 2}] :
        \A i \in DOMAIN TablePairs : TablePairs[i][1] = TablePairs[i][2] => c[i] \in {NoEntry, 2}}

RECURSIVE entriesOfTable(_, _)
entriesOfTable(c, i) ==
    IF i > Len(TablePairs) THEN <<>>
    ELSE (IF c[i] = NoEntry THEN <<>> ELSE <<Entry(TablePairs[i][1], TablePairs[i][2], c[i])>>)
         \o entriesOfTable(c, i + 1)

TableDocuments == {Document("array", entriesOfTable(c, 1), {}) : c \in TableCells}

TableParams ==
    {[minClusters |-> kk, maxClusters |-> kk, minClusterSize |-> size] : kk \in 1..3, size \in 1..2}
    \cup {[minClusters |-> 1, maxClusters |-> 2, minClusterSize |-> 2]}

InitTables ==
    /\ doc \in TableDocuments
    /\ params \in TableParams
    /\ Fresh

SpecTables == InitTables /\ [][Next]_vars

\* The three-node tables in which the three nodes are all at distance 0 from each
\* other, and all or none of them have an entry to themselves: every node joins the
\* first medoid, the other medoids lose their members and are drawn again, so that
\* the loop can run to maxIterations.
CoincidentDocuments ==
    {Document("array", entriesOfTable(c, 1), {}) :
        c \in {t \in TableCells :
                  \A i \in DOMAIN TablePairs :
                     IF TablePairs[i][1] = TablePairs[i][2] THEN t[i] = t[1] ELSE t[i] = 0}}

InitCoincident ==
    /\ doc \in CoincidentDocuments
    /\ params \in TableParams
    /\ Fresh

\* runKMedoidsSimulation runs its for loop on its own: a pass that can be made is made
FairSpecCoincident == InitCoincident /\ [][Next]_vars /\ WF_vars(Iterate)

\* ---------------------------------------------------------------- two blobs
\* The whole program on the complete graph over nodes 0..5 in which 0, 1, 2, 3 are
\* close to each other, 4 and 5 are close to each other and the two groups are far
\* apart or not joined by any entry, asked for clusters of at least three nodes.
BlobA == {0, 1, 2, 3}

BlobNodes == <<0, 1, 2, 3, 4, 5>>

BlobPairs ==
    SelectSeq([i \in 1..36 |-> <<BlobNodes[((i - 1) \div 6) + 1], BlobNodes[((i - 1) % 6) + 1]>>],
              LAMBDA pair : pair[1] < pair[2])

BlobDistance(pair, inA, inB, across) ==
    IF pair[1] \in BlobA /\ pair[2] \in BlobA THEN inA
    ELSE IF pair[1] \notin BlobA /\ pair[2] \notin BlobA THEN inB
    ELSE across

BlobEntries(inA, inB, across) ==
    LET joined == SelectSeq(BlobPairs, LAMBDA pair : BlobDistance(pair, inA, inB, across) # NoEntry)
    IN [i \in DOMAIN joined |->
           Entry(joined[i][1], joined[i][2], BlobDistance(joined[i], inA, inB, across))]

BlobDocuments ==
    {Document("array", BlobEntries(inA, inB, across), {}) :
        inA \in SmallDists, inB \in SmallDists, across \in LargeDists \cup {NoEntry}}

BlobParams ==
    {[minClusters |-> 2, maxClusters |-> 2, minClusterSize |-> 3],
     [minClusters |-> 1, maxClusters |-> 3, minClusterSize |-> 3]}

InitBlobs ==
    /\ doc \in BlobDocuments
    /\ params \in BlobParams
    /\ Fresh

SpecBlobs == InitBlobs /\ [][Next]_vars

\* ---------------------------------------------------------------- C11
\* the document as it is written, without running the schema
NotAnEntryArray == doc.kind # "array" \/ doc.nonNumeric # {}

\* C11: a document that is not parseable JSON, or that parses but is not an array
\* of entries whose from, to and distance are numbers, ends with a result holding
\* the error field alone, and no trial is run and no metric row is written.
C11_RejectedDocumentOnlyError ==
    Done /\ NotAnEntryArray =>
        /\ result.has = {"error"}
        /\ result.error = (IF doc.kind = "unparseable" THEN "FailedToParse" ELSE "InvalidFormat")
        /\ trials = <<>>
        /\ allMetrics = <<>>
        /\ bestK = -1

C11_Witness ==
    /\ Done
    /\ doc.kind = "array"
    /\ doc.nonNumeric = {<<1, "distance">>}
    /\ Len(doc.entries) = 2
    /\ ~InvalidParams
    /\ result = ErrorResult("InvalidFormat")

\* ---------------------------------------------------------------- C12
NegativeDistance ==
    /\ doc.kind = "array"
    /\ doc.nonNumeric = {}
    /\ \E i \in DOMAIN doc.entries : doc.entries[i].distance < 0

\* C12: a document with an entry whose distance is negative is rejected with an
\* error result and no trial is run.
C12_NegativeDistanceRejected ==
    Done /\ NegativeDistance /\ ~InvalidParams /\ ~FeasibilityWarns =>
        "error" \in result.has /\ trials = <<>>

\* ---------------------------------------------------------------- C13
HasChosenClusters == "chosenClusters" \in result.has /\ Len(result.chosenClusters) > 0

\* C13: a returned result either holds the error field alone, or holds no error
\* field; and a result with no error and no non-empty chosenClusters holds a warning.
C13_ResultShape ==
    Done =>
        /\ result.has # {}
        /\ "error" \in result.has => result.has = {"error"}
        /\ "error" \notin result.has /\ ~HasChosenClusters => "warning" \in result.has

C13_Witness ==
    /\ Done
    /\ trials # <<>>
    /\ "error" \notin result.has
    /\ ~HasChosenClusters
    /\ "warning" \in result.has

\* ---------------------------------------------------------------- C14
EmptyEntryArray == doc.kind = "array" /\ Len(doc.entries) = 0

\* C14: a document that is an empty array ends with the "no data" warning alone,
\* whatever the parameters are, and no trial is run.
C14_EmptyMatrixWarnsNoData ==
    Done /\ EmptyEntryArray =>
        /\ result = WarningResult(Warning("NoData", <<>>))
        /\ trials = <<>>
        /\ allMetrics = <<>>

C14_Witness ==
    /\ Done
    /\ EmptyEntryArray
    /\ InvalidParams
    /\ result = WarningResult(Warning("NoData", <<>>))

\* ---------------------------------------------------------------- C15
\* C15: the oracle is symmetric: for every accepted entry sequence, also one that
\* gives the same pair more than once, in either direction, with different
\* distances, the distance from a to b equals the distance from b to a.
C15_OracleSymmetric ==
    OracleBuilt =>
        \A a, b \in Nodes : getDistance(a, b, distanceMap) = getDistance(b, a, distanceMap)

C15_Witness ==
    /\ OracleBuilt
    /\ \E i, j \in DOMAIN doc.entries :
        /\ i < j
        /\ doc.entries[i].from # doc.entries[i].to
        /\ doc.entries[j].from = doc.entries[i].to
        /\ doc.entries[j].to = doc.entries[i].from
        /\ doc.entries[j].distance # doc.entries[i].distance
        /\ getDistance(doc.entries[i].from, doc.entries[i].to, distanceMap)
               = doc.entries[j].distance
        /\ getDistance(doc.entries[i].to, doc.entries[i].from, distanceMap)
               = doc.entries[j].distance

\* ---------------------------------------------------------------- C16
\* C16: the oracle has a zero diagonal: for every accepted entry sequence, also one
\* with an entry from a node to itself at a non-zero distance, the distance from a
\* node to itself is 0.
C16_OracleDiagonalZero ==
    OracleBuilt => \A a \in Nodes : getDistance(a, a, distanceMap) = 0

\* ---------------------------------------------------------------- C17
CompleteGraph == \A a, b \in Nodes : a # b => Joining(a, b) # {}

\* C17: for distinct nodes a and b the oracle returns the infinite sentinel exactly
\* when no entry joins them in either direction, and otherwise a distance supplied
\* for that pair; on a complete graph no oracle cell is the sentinel.
C17_InfiniteIffUnjoined ==
    OracleBuilt =>
        /\ \A a, b \in Nodes : a # b =>
            /\ getDistance(a, b, distanceMap) = Infinity <=> Joining(a, b) = {}
            /\ Joining(a, b) # {} =>
                \E i \in Joining(a, b) : getDistance(a, b, distanceMap) = doc.entries[i].distance
        /\ CompleteGraph =>
            \A a, b \in Nodes : getDistance(a, b, distanceMap) < Infinity

C17_Witness ==
    /\ OracleBuilt
    /\ Cardinality(Nodes) = 3
    /\ \E a, b, c \in Nodes :
        /\ Joining(a, b) = {}
        /\ getDistance(a, b, distanceMap) = Infinity
        /\ Cardinality(Joining(a, c)) = 2
        /\ getDistance(a, c, distanceMap) < Infinity

C17_CompleteWitness ==
    /\ OracleBuilt
    /\ Cardinality(Nodes) = 3
    /\ CompleteGraph
    /\ \A a, b \in Nodes : getDistance(a, b, distanceMap) < Infinity

\* ---------------------------------------------------------------- C18
ChosenMemberSets == {MembersOf(result.chosenClusters[i]) : i \in DOMAIN result.chosenClusters}

\* C18: on the two separated pairs, with minClusters = maxClusters = 2 and
\* minClusterSize = 2, the search returns chosenK = 2 and exactly the clusters
\* {0, 1} and {2, 3}, whatever the random choices of initial medoids and refills.
C18_TwoPairsAlwaysRecovered ==
    Done =>
        /\ "chosenK" \in result.has
        /\ result.chosenK = 2
        /\ Len(result.chosenClusters) = 2
        /\ ChosenMemberSets = {{0, 1}, {2, 3}}

CrossDistances ==
    {doc.entries[i].distance :
        i \in {j \in DOMAIN doc.entries :
                  (doc.entries[j].from \in {0, 1}) # (doc.entries[j].to \in {0, 1})}}

EqualCross == Cardinality(CrossDistances) = 1

\* C18 (amended): on the two separated pairs, when the four distances between
\* {0, 1} and {2, 3} are one and the same large value, the search returns
\* chosenK = 2 and exactly the clusters {0, 1} and {2, 3}, whatever the random
\* choices of initial medoids and refills.
C18_EqualCrossRecovered ==
    Done /\ EqualCross =>
        /\ "chosenK" \in result.has
        /\ result.chosenK = 2
        /\ Len(result.chosenClusters) = 2
        /\ ChosenMemberSets = {{0, 1}, {2, 3}}

C18_Witness ==
    /\ Done
    /\ EqualCross
    /\ uniqueNodes = <<3, 0, 2, 1>>
    /\ result.has = {"chosenClusters", "chosenK", "allMetrics"}
    /\ ChosenMemberSets = {{0, 1}, {2, 3}}
    /\ result.allMetrics = <<[k |-> 2, totalIntraClusterDistance |-> 3, numberOfValidClusters |-> 2]>>

\* ---------------------------------------------------------------- C19
TrialStarts ==
    /\ pc = "loop"
    /\ k <= params.maxClusters
    /\ ~skipsTrial(k, Len(uniqueNodes), params.minClusterSize)
    /\ k > 0
    /\ k <= Len(uniqueNodes)

\* the medoid sets the trial can start from
InitialMedoidSets == {Range(initial) : initial \in Arrangements(uniqueNodes, k)}

\* the medoid sets one pass of the iteration loop can leave behind
NextMedoidSets ==
    LET groups == assignNodes(currentMedoids, uniqueNodes, distanceMap)
    IN UNION {LET deduped == uniqueArray(updateMedoids(currentMedoids, groups, distanceMap, draws))
              IN {Range(deduped \o refill) : refill \in refillChoices(uniqueNodes, deduped, k)} :
              draws \in [lostMedoids(currentMedoids, groups) -> Range(uniqueNodes)]}

\* C19: a partition run is determined by what it is given: from the same node
\* list, oracle and k (there is no seed to give) the run starts from one medoid
\* set and every pass of its loop leaves one medoid set.
C19_TrialDeterministic ==
    /\ TrialStarts => Cardinality(InitialMedoidSets) = 1
    /\ pc = "iterate" => Cardinality(NextMedoidSets) = 1

\* ---------------------------------------------------------------- C20
Assigning == pc \in {"iterate", "final"}

\* the medoids at the smallest finite distance from node
NearestMedoids(node) ==
    {m \in Range(currentMedoids) :
        /\ getDistance(node, m, distanceMap) < Infinity
        /\ \A other \in Range(currentMedoids) :
              getDistance(node, m, distanceMap) <= getDistance(node, other, distanceMap)}

LowestIdentifier(S) == CHOOSE x \in S : \A y \in S : x <= y

FirstInArray(S) ==
    currentMedoids[LowestIdentifier({i \in DOMAIN currentMedoids : currentMedoids[i] \in S})]

\* C20: in the assignment step a node at the same smallest distance from several
\* medoids joins the one with the lowest identifier, whatever the order of the
\* medoid array.
C20_TieToLowestIdentifier ==
    Assigning =>
        \A groups \in {assignNodes(currentMedoids, uniqueNodes, distanceMap)} :
        \A node \in Nodes :
        \A nearest \in {NearestMedoids(node)} :
        \A m \in Range(currentMedoids) :
            node \in Range(groups[m]) <=> nearest # {} /\ m = LowestIdentifier(nearest)

\* C20 (amended): in the assignment step a node at the same smallest distance from
\* several medoids joins the one that comes first in the medoid array; a node at a
\* finite distance from no medoid joins none.
C20_TieToFirstInArray ==
    Assigning =>
        \A groups \in {assignNodes(currentMedoids, uniqueNodes, distanceMap)} :
        \A node \in Nodes :
        \A nearest \in {NearestMedoids(node)} :
        \A m \in Range(currentMedoids) :
            node \in Range(groups[m]) <=> nearest # {} /\ m = FirstInArray(nearest)

C20_Witness ==
    /\ Assigning
    /\ \E node \in Nodes :
        /\ Cardinality(NearestMedoids(node)) >= 2
        /\ FirstInArray(NearestMedoids(node)) # LowestIdentifier(NearestMedoids(node))
        /\ node \in Range(assignNodes(currentMedoids, uniqueNodes, distanceMap)
                             [FirstInArray(NearestMedoids(node))])

\* ---------------------------------------------------------------- C21
\* the medoids whose group holds the node
GroupsHolding(node, groups) == {m \in Range(currentMedoids) : node \in Range(groups[m])}

ReachableMedoids(node) ==
    {m \in Range(currentMedoids) : getDistance(node, m, distanceMap) < Infinity}

\* C21: in the final assignment each node of the node set is in the group of
\* exactly one medoid, for every oracle, sparse ones included.
C21_EveryNodeInExactlyOneGroup ==
    pc = "final" =>
        \A groups \in {assignNodes(currentMedoids, uniqueNodes, distanceMap)} :
        \A node \in Nodes :
            Cardinality(GroupsHolding(node, groups)) = 1

\* C21 (amended): in the final assignment each node of the node set is in the
\* group of at most one medoid, once; it is in exactly one group when some medoid
\* is at a finite distance from it and in none otherwise.
C21_AtMostOneGroup ==
    pc = "final" =>
        \A groups \in {assignNodes(currentMedoids, uniqueNodes, distanceMap)} :
        \A node \in Nodes :
        \A holding \in {GroupsHolding(node, groups)} :
            /\ Cardinality(holding) <= 1
            /\ Cardinality(holding) = 1 <=> ReachableMedoids(node) # {}
            /\ \A m \in holding :
                  Cardinality({i \in DOMAIN groups[m] : groups[m][i] = node}) = 1

C21_Witness ==
    /\ pc = "final"
    /\ \E node, other \in Nodes :
        /\ ReachableMedoids(node) = {}
        /\ GroupsHolding(node, assignNodes(currentMedoids, uniqueNodes, distanceMap)) = {}
        /\ other \notin Range(currentMedoids)
        /\ Cardinality(GroupsHolding(other, assignNodes(currentMedoids, uniqueNodes, distanceMap))) = 1

\* ---------------------------------------------------------------- C22
\* C22: in every assignment step a node placed in the group of medoid m is at a
\* finite distance from m, and no other current medoid is nearer to it.
C22_AssignedToNearestFinite ==
    Assigning =>
        \A groups \in {assignNodes(currentMedoids, uniqueNodes, distanceMap)} :
        \A m \in Range(currentMedoids) :
        \A node \in Range(groups[m]) :
            /\ getDistance(node, m, distanceMap) < Infinity
            /\ \A other \in Range(currentMedoids) :
                  getDistance(node, m, distanceMap) <= getDistance(node, other, distanceMap)

C22_Witness ==
    /\ Assigning
    /\ Len(currentMedoids) = 2
    /\ \E node \in Nodes :
        /\ getDistance(node, currentMedoids[2], distanceMap)
              < getDistance(node, currentMedoids[1], distanceMap)
        /\ getDistance(node, currentMedoids[1], distanceMap) < Infinity
        /\ node \in Range(assignNodes(currentMedoids, uniqueNodes, distanceMap)[currentMedoids[2]])

\* ---------------------------------------------------------------- C23
\* the medoid arrays one pass of the iteration loop can reach before its abandon check
MedoidsAfterRefill ==
    LET groups == assignNodes(currentMedoids, uniqueNodes, distanceMap)
    IN UNION {LET deduped == uniqueArray(updateMedoids(currentMedoids, groups, distanceMap, draws))
              IN {deduped \o refill : refill \in refillChoices(uniqueNodes, deduped, k)} :
              draws \in [lostMedoids(currentMedoids, groups) -> Range(uniqueNodes)]}

\* some draw leaves fewer than k medoids after deduplication, so that a refill is needed
RefillNeeded ==
    LET groups == assignNodes(currentMedoids, uniqueNodes, distanceMap)
    IN \E draws \in [lostMedoids(currentMedoids, groups) -> Range(uniqueNodes)] :
          Len(uniqueArray(updateMedoids(currentMedoids, groups, distanceMap, draws))) < k

\* C23: while a trial runs (1 <= k <= |nodes|), at the start, at the end of every
\* iteration and at the final assignment the medoid array holds exactly k pairwise
\* distinct nodes of the node set, and no draw leads into the abandon branch.
C23_MedoidSetKeepsK ==
    /\ Assigning =>
        /\ k >= 1
        /\ k <= Len(uniqueNodes)
        /\ Len(currentMedoids) = k
        /\ Cardinality(Range(currentMedoids)) = k
        /\ Range(currentMedoids) \subseteq Nodes
    /\ pc = "iterate" => \A medoids \in MedoidsAfterRefill : Len(medoids) = k

C23_Witness ==
    /\ pc = "iterate"
    /\ iter >= 1
    /\ k = 2
    /\ RefillNeeded
    /\ Cardinality(Range(currentMedoids)) = 2

\* ---------------------------------------------------------------- C24
\* C24: in the update step, for every cluster that is non-empty after the
\* assignment, the new medoid is a member of that cluster and no member has a
\* smaller sum of distances to the cluster's members (an unknown distance counting
\* as infinity).
C24_UpdatePicksMinimalSum ==
    pc = "iterate" =>
        \A groups \in {assignNodes(currentMedoids, uniqueNodes, distanceMap)} :
        \A draws \in [lostMedoids(currentMedoids, groups) -> Range(uniqueNodes)] :
        \A newMedoids \in {updateMedoids(currentMedoids, groups, distanceMap, draws)} :
        \A i \in DOMAIN currentMedoids :
        \A members \in {groups[currentMedoids[i]]} :
            members # <<>> =>
                /\ newMedoids[i] \in Range(members)
                /\ \A other \in Range(members) :
                      sumDistances(newMedoids[i], members, distanceMap)
                          <= sumDistances(other, members, distanceMap)

C24_Witness ==
    /\ pc = "iterate"
    /\ \E m \in Range(currentMedoids) :
       \E members \in {assignNodes(currentMedoids, uniqueNodes, distanceMap)[m]} :
        /\ Len(members) = 3
        /\ bestNewMedoidForCluster(members, distanceMap) # members[1]
        /\ sumDistances(bestNewMedoidForCluster(members, distanceMap), members, distanceMap)
              < sumDistances(members[1], members, distanceMap)
        /\ sumDistances(members[1], members, distanceMap) < Infinity

\* ---------------------------------------------------------------- C25
\* the medoids whose final group passes the minimum-size filter
SurvivingMedoids(groups) ==
    {m \in Range(currentMedoids) : Len(groups[m]) >= params.minClusterSize}

\* C25: in every partition result the medoid of each surviving cluster is a member
\* of that cluster, whatever the oracle holds.
C25_MedoidIsMember ==
    pc = "final" =>
        \A groups \in {assignNodes(currentMedoids, uniqueNodes, distanceMap)} :
        \A m \in SurvivingMedoids(groups) : m \in Range(groups[m])

\* ---------------------------------------------------------------- C26
\* the sum of the distances from x to the other members
sumToOthers(x, members) ==
    sumDistances(x, SelectSeq(members, LAMBDA n : n # x), distanceMap)

\* C26: in every partition result the medoid of each surviving cluster has the
\* smallest sum of distances to the other members among the members of that
\* cluster (stated for the clusters that hold their medoid; C25 is about the rest).
C26_MedoidMinimisesFinalCluster ==
    pc = "final" =>
        \A groups \in {assignNodes(currentMedoids, uniqueNodes, distanceMap)} :
        \A m \in SurvivingMedoids(groups) :
            m \in Range(groups[m]) =>
                \A other \in Range(groups[m]) :
                    sumToOthers(m, groups[m]) <= sumToOthers(other, groups[m])

\* ---------------------------------------------------------------- C27
RECURSIVE SumSeq(_)
SumSeq(numbers) == IF numbers = <<>> THEN 0 ELSE Head(numbers) + SumSeq(Tail(numbers))

\* the medoids whose group has at least minClusterSize members
Survivors(groups) == {m \in Range(currentMedoids) : Len(groups[m]) >= params.minClusterSize}

\* the distances from medoid m to the members of its group other than m, summed
MedoidToOthers(m, groups) ==
    LET others == SelectSeq(groups[m], LAMBDA n : n # m)
    IN SumSeq([j \in DOMAIN others |-> getDistance(m, others[j], distanceMap)])

\* the sum of MedoidToOthers over the surviving clusters only
SurvivorTotal(groups) ==
    SumSeq([i \in DOMAIN currentMedoids |->
               IF currentMedoids[i] \in Survivors(groups)
               THEN MedoidToOthers(currentMedoids[i], groups)
               ELSE 0])

LastTrial(history) == history[Len(history)]

\* C27: the totalIntraClusterDistance of every partition result is the sum, over
\* the clusters that survived the minimum-size filter only, of the distance from
\* the medoid to every other member.
C27_TotalIsSurvivorSum ==
    [][pc = "final" =>
        \A groups \in {assignNodes(currentMedoids, uniqueNodes, distanceMap)} :
            LastTrial(trials').totalIntraClusterDistance = SurvivorTotal(groups)]_vars

\* C27 (amended): when at least one cluster survived the minimum-size filter, the
\* totalIntraClusterDistance of the partition result is the sum, over the surviving
\* clusters only, of the distance from the medoid to every other member, and the
\* clusters of the result are the surviving groups, unchanged; when none survived
\* the result has no cluster and the infinite sentinel as distance.
C27_TotalIsSurvivorSumOrSentinel ==
    [][pc = "final" =>
        \A groups \in {assignNodes(currentMedoids, uniqueNodes, distanceMap)} :
        \A made \in {LastTrial(trials')} :
            /\ Len(trials') = Len(trials) + 1
            /\ Len(made.clusters) = Cardinality(Survivors(groups))
            /\ {MembersOf(made.clusters[i]) : i \in DOMAIN made.clusters}
                  = {Range(groups[m]) : m \in Survivors(groups)}
            /\ made.totalIntraClusterDistance
                  = (IF Survivors(groups) = {} THEN Infinity ELSE SurvivorTotal(groups))]_vars

\* a trial for k = 2 on the two blobs has just returned: the four close nodes are
\* the one cluster, the other two nodes are in no cluster
C27_Witness ==
    /\ trials # <<>>
    /\ Len(uniqueNodes) = 6
    /\ LastTrial(trials).k = 2
    /\ Len(LastTrial(trials).clusters) = 1
    /\ MembersOf(LastTrial(trials).clusters[1]) = BlobA
    /\ LastTrial(trials).totalIntraClusterDistance \in {3, 6}

\* ---------------------------------------------------------------- C28
\* a pass of the iteration loop that does not leave the trial by the abandon branch
PassOfLoop == pc = "iterate" /\ pc' \in {"iterate", "final"}

\* the sorted medoid set the pass leaves equals the one the pass before it left
SameMedoidSetAsBefore == iter >= 1 /\ Range(currentMedoids') = Range(currentMedoids)

\* C28: every partition trial terminates: the iteration loop runs at most
\* maxIterations times, and it stops at the end of the first pass whose sorted
\* medoid set equals that of the pass before.
C28_TrialTerminates ==
    /\ [](iter <= maxIterations /\ (pc = "iterate" => iter < maxIterations))
    /\ [][PassOfLoop =>
            IF SameMedoidSetAsBefore
            THEN pc' = "final" /\ iter' = iter
            ELSE iter' = iter + 1 /\ (pc' = "final" <=> iter' = maxIterations)]_vars
    /\ (pc = "iterate") ~> (pc # "iterate")

\* the loop has run maxIterations times without two equal medoid sets in a row
C28_Witness ==
    /\ pc = "final"
    /\ iter = maxIterations
    /\ k = 2

\* the loop has stopped early on two equal medoid sets held in different orders
C28_EarlyStopWitness ==
    /\ pc = "final"
    /\ iter = 1
    /\ previousMedoidsJSON # JSONstringify(currentMedoids)

\* ---------------------------------------------------------------- C29
\* the search loop and the trials it runs
Searching == pc \in {"loop", "iterate", "final"}

\* the rows of a history that were there before the step are still there, unchanged,
\* and at most one row was added
GrowsByAtMostOne(before, after) ==
    /\ Len(after) \in {Len(before), Len(before) + 1}
    /\ \A i \in DOMAIN before : after[i] = before[i]

\* C29: the distance oracle and the node list are read-only after construction: no
\* step of the search loop or of a partition trial changes an oracle entry or the
\* content or order of the node list, and a trial leaves the clusters and metric
\* rows of the trials before it as they were.
C29_OracleAndNodeListReadOnly ==
    [][Searching =>
          /\ uniqueNodes' = uniqueNodes
          /\ distanceMap' = distanceMap
          /\ GrowsByAtMostOne(trials, trials')
          /\ GrowsByAtMostOne(allMetrics, allMetrics')]_vars

\* two trials of one search have returned clusters over a node list that is not in
\* ascending order
C29_Witness ==
    /\ Len(trials) >= 2
    /\ \A i \in DOMAIN trials : trials[i].clusters # <<>>
    /\ trials[1].k # trials[2].k
    /\ uniqueNodes # sortAscending(uniqueNodes)
    /\ distanceMap = buildDistanceMap(doc.entries, Range(uniqueNodes))
    /\ uniqueNodes = allNodesOf(doc.entries, <<>>)

\* ---------------------------------------------------------------- the form
\* ClusterForm inside HomePage. A FileReader calls back at a later time of its own;
\* runClusteringAlgorithm is a server action, seen by the form as a promise that
\* settles at a later time of its own. The fieldset and the submit button are
\* disabled while processingStatus is not 'idle'.
MaxPending == 2     \* at most MaxPending readers of a kind, and calls, are outstanding

AlgorithmVars == <<doc, params, pc, uniqueNodes, distanceMap, k, allMetrics, bestK,
                   minTotalIntraClusterDistance, bestClusters, currentMedoids,
                   previousMedoidsJSON, iter, trials, result>>

isFormEffectivelyDisabled == processingStatus # "idle"

\* onChange of the distanceMatrixFile input: a file is chosen or the choice is cleared
handleDistanceMatrixFileChange ==
    /\ ~isFormEffectivelyDisabled
    /\ \E file \in BOOLEAN : distanceMatrixFile' = file
    /\ UNCHANGED <<processingStatus, locationsFile, locationsFileName, locationsReaders,
                   matrixReaders, runsAwaited>>
    /\ UNCHANGED AlgorithmVars

\* handleLocationsFileChange(event), up to reader.readAsText: what it does to the
\* file name, the status and the outstanding readers
locationsFileChanged(file) ==
    IF file
    THEN /\ locationsFileName' = "name"
         /\ processingStatus' = "reading_file"
         /\ locationsReaders' = locationsReaders + 1
    ELSE /\ locationsFileName' = "null"
         /\ UNCHANGED <<processingStatus, locationsReaders>>

\* onChange of the locationsFile input
handleLocationsFileChange ==
    /\ ~isFormEffectivelyDisabled
    /\ locationsReaders < MaxPending
    /\ \E file \in BOOLEAN :
          /\ locationsFile' = file
          /\ locationsFileChanged(file)
    /\ UNCHANGED <<distanceMatrixFile, matrixReaders, runsAwaited>>
    /\ UNCHANGED AlgorithmVars

\* reader.onload (valid, invalid or unparseable content) or reader.onerror of a
\* locations reader: every path ends with onProcessingStatusChange('idle')
LocationsReaderCallsBack ==
    /\ locationsReaders > 0
    /\ \E outcome \in {"loaded", "failed"} :
          locationsFileName' = IF outcome = "loaded" THEN "name" ELSE "error"
    /\ processingStatus' = "idle"
    /\ locationsReaders' = locationsReaders - 1
    /\ UNCHANGED <<distanceMatrixFile, locationsFile, matrixReaders, runsAwaited>>
    /\ UNCHANGED AlgorithmVars

\* onSubmit, called by form.handleSubmit once ClusterFormSchema accepts the values:
\* the locations file is processed again when its name is unset or an error, and
\* the distance-matrix reader is started
onSubmit ==
    /\ ~isFormEffectivelyDisabled
    /\ distanceMatrixFile
    /\ matrixReaders < MaxPending
    /\ IF locationsFile /\ locationsFileName \in {"null", "error"}
       THEN /\ locationsReaders < MaxPending
            /\ locationsFileChanged(TRUE)
       ELSE /\ processingStatus' = "reading_file"
            /\ UNCHANGED <<locationsFileName, locationsReaders>>
    /\ matrixReaders' = matrixReaders + 1
    /\ UNCHANGED <<distanceMatrixFile, locationsFile, runsAwaited>>
    /\ UNCHANGED AlgorithmVars

\* reader.onload of onSubmit up to its await: the status becomes 'clustering' and
\* runClusteringAlgorithm is called
MatrixReaderLoads ==
    /\ matrixReaders > 0
    /\ runsAwaited < MaxPending
    /\ processingStatus' = "clustering"
    /\ runsAwaited' = runsAwaited + 1
    /\ matrixReaders' = matrixReaders - 1
    /\ UNCHANGED <<distanceMatrixFile, locationsFile, locationsFileName, locationsReaders>>
    /\ UNCHANGED AlgorithmVars

\* reader.onerror of onSubmit
MatrixReaderFails ==
    /\ matrixReaders > 0
    /\ processingStatus' = "idle"
    /\ matrixReaders' = matrixReaders - 1
    /\ UNCHANGED <<distanceMatrixFile, locationsFile, locationsFileName, locationsReaders,
                   runsAwaited>>
    /\ UNCHANGED AlgorithmVars

\* the awaited call settles, fulfilled or rejected: the rest of reader.onload runs
\* and its finally block sets the status to 'idle'
RunSettles ==
    /\ runsAwaited > 0
    /\ processingStatus' = "idle"
    /\ runsAwaited' = runsAwaited - 1
    /\ UNCHANGED <<distanceMatrixFile, locationsFile, locationsFileName, locationsReaders,
                   matrixReaders>>
    /\ UNCHANGED AlgorithmVars

\* the page as it is mounted; the engine's variables are those of a call not yet made
InitForm ==
    /\ FormMounted
    /\ doc = Document("array", <<>>, {})
    /\ params = [minClusters |-> 2, maxClusters |-> 5, minClusterSize |-> 2]
    /\ pc = "start"
    /\ uniqueNodes = <<>>
    /\ distanceMap = <<>>
    /\ k = 0
    /\ allMetrics = <<>>
    /\ bestK = -1
    /\ minTotalIntraClusterDistance = Infinity
    /\ bestClusters = <<>>
    /\ currentMedoids = <<>>
    /\ previousMedoidsJSON = <<>>
    /\ iter = 0
    /\ trials = <<>>
    /\ result = NoResult

NextForm ==
    \/ handleDistanceMatrixFileChange
    \/ handleLocationsFileChange
    \/ LocationsReaderCallsBack
    \/ onSubmit
    \/ MatrixReaderLoads
    \/ MatrixReaderFails
    \/ RunSettles

SpecForm == InitForm /\ [][NextForm]_vars

\* ---------------------------------------------------------------- C30
\* C30: from the moment the distance-matrix reader's onload has set the status to
\* 'clustering' until the runClusteringAlgorithm call it awaits has settled, the
\* processing status is never 'idle', whatever the locations readers started by
\* onSubmit do in between.
C30_NeverIdleWhileClustering == runsAwaited > 0 => processingStatus # "idle"
====
